---- MODULE Spec2Model ----
(***************************************************************************)
(* Model of src/src/file.rs: the File value (a stored path) and its        *)
(* queries and delete operation, run against a host filesystem that        *)
(* another process may change between any two system calls.                *)
(*                                                                         *)
(* One caller thread issues File operations one after another.  Every      *)
(* operation is a sequence of system calls (stat, read, unlink, recursive  *)
(* delete); each system call is one step of the model, and the steps of a  *)
(* call follow the control flow of the method's body.  Between two steps   *)
(* the environment (another process) may create, overwrite, chmod or       *)
(* delete entries.                                                         *)
(*                                                                         *)
(*   fs      the filesystem: what every path resolves to                   *)
(*   call    the call in progress, or the call that has just returned,     *)
(*           with the File values it is made on                            *)
(*   races   how often another process changed fs since that call began    *)
(*   fs0     fs without the effects of the current call: fs as it was when *)
(*           the call began or, later, as the other process last left it   *)
(***************************************************************************)
EXTENDS Naturals, Sequences, FiniteSets, TLC

VARIABLES fs, fs0, call, races

vars == <<fs, fs0, call, races>>

\* another process changed fs since the current call began
changed == races > 0

(* ------------------------------ bounds -------------------------------- *)

\* changes another process makes to fs while one call is in progress
MaxRaces == 2

\* the paths of the model: a, a/a, a/a/a and b, so that a directory can hold
\* a subdirectory that holds a file, with an entry outside it
Paths == {<<"a">>, <<"a", "a">>, <<"a", "a", "a">>, <<"b">>}

\* the contents a file can have: "", "\x00" and "\x01"
Contents == {<<>>, <<0>>, <<1>>}

(* ---------------------------- filesystem ------------------------------ *)

\* "" as a sequence of characters
EmptyString == <<>>

NoEntry == [kind |-> "none", content |-> <<>>, readable |-> TRUE]
DirEntry == [kind |-> "dir", content |-> <<>>, readable |-> TRUE]
SpecialEntry == [kind |-> "special", content |-> <<>>, readable |-> TRUE]
FileEntry(c, r) == [kind |-> "file", content |-> c, readable |-> r]

Parent(p) == SubSeq(p, 1, Len(p) - 1)

\* p is q or lies beneath q
Beneath(p, q) == Len(q) <= Len(p) /\ SubSeq(p, 1, Len(q)) = q

\* the root directory <<>> always exists
ParentIsDir(F, p) == IF Len(p) = 1 THEN TRUE ELSE F[Parent(p)].kind = "dir"

WellFormed(F) == \A p \in Paths : F[p].kind # "none" => ParentIsDir(F, p)

(* ------------------- std::path / std::fs primitives ------------------- *)

\* a slip: "not a directory" taken for "a regular file"
is_file_not_dir(F, p) == F[p].kind # "dir"

is_file(F, p) == F[p].kind = "file"

\* a slip: "not a regular file" taken for "a directory"
is_directory_not_file(F, p) == F[p].kind # "file"

is_directory(F, p) == F[p].kind = "dir"

exists(F, p) == F[p].kind # "none"

Ok(v) == [ok |-> TRUE, val |-> v]
Err == [ok |-> FALSE, val |-> <<>>]

\* what a system call hands back, without the filesystem it left
Result(out) == [ok |-> out.ok, val |-> out.val]

\* a slip: the file is opened for writing with truncation before the read
fs_read_truncating(F, p) ==
    IF F[p].kind = "file" /\ F[p].readable
    THEN {[ok |-> TRUE, val |-> <<>>, fs |-> [F EXCEPT ![p].content = <<>>]]}
    ELSE {[ok |-> FALSE, val |-> <<>>, fs |-> F]}

\* std::fs::read: the outcomes of reading the whole of p, each with the
\* filesystem the call leaves. A regular file reads as its content unless
\* permission is denied; a directory or a missing path fails; a device or
\* FIFO may fail or deliver any bytes.
fs_read(F, p) ==
    CASE F[p].kind = "file" ->
            IF F[p].readable
            THEN {[ok |-> TRUE, val |-> F[p].content, fs |-> F]}
            ELSE {[ok |-> FALSE, val |-> <<>>, fs |-> F]}
      [] F[p].kind = "special" ->
            {[ok |-> FALSE, val |-> <<>>, fs |-> F]}
              \cup {[ok |-> TRUE, val |-> c, fs |-> F] : c \in Contents}
      [] OTHER -> {[ok |-> FALSE, val |-> <<>>, fs |-> F]}

\* std::fs::metadata
fs_metadata(F, p) ==
    IF exists(F, p) THEN Ok([kind |-> F[p].kind, len |-> Len(F[p].content)]) ELSE Err

\* the filesystem without p and everything beneath it
Without(F, p) == [q \in Paths |-> IF Beneath(q, p) THEN NoEntry ELSE F[q]]

\* the filesystems left by a recursive delete of p that stopped part-way:
\* some entries beneath p are gone, p itself is still there
PartlyWithout(F, p) ==
    {G \in {[q \in Paths |-> IF q \in S THEN NoEntry ELSE F[q]] :
                S \in SUBSET {q \in Paths : Beneath(q, p) /\ q # p}} :
        WellFormed(G)}

\* std::fs::remove_file: unlink(p); fault is an I/O or permission failure
remove_file(F, p, fault) ==
    IF F[p].kind \in {"file", "special"} /\ ~fault
    THEN [ok |-> TRUE, fs |-> Without(F, p)]
    ELSE [ok |-> FALSE, fs |-> F]

\* a slip: the directory entry is removed, what is beneath it is left
remove_dir_all_shallow(F, p, fault) ==
    IF F[p].kind = "dir" /\ ~fault
    THEN {[ok |-> TRUE, fs |-> [F EXCEPT ![p] = NoEntry]]}
    ELSE {[ok |-> FALSE, fs |-> F]}

\* std::fs::remove_dir_all: the outcomes of a recursive delete of p
remove_dir_all(F, p, fault) ==
    IF F[p].kind = "dir"
    THEN IF fault
         THEN {[ok |-> FALSE, fs |-> G] : G \in PartlyWithout(F, p)}
         ELSE {[ok |-> TRUE, fs |-> Without(F, p)]}
    ELSE {[ok |-> FALSE, fs |-> F]}

(* ------------------------------- File --------------------------------- *)

new(p) == [path |-> p]

\* the File values a caller can hold
Files == {new(p) : p \in Paths}

NoFile == [path |-> <<>>]

\* format!("{:x}", Sha256::digest(content)): an injective, never empty string
Sha256Hex(content) == <<"sha256">> \o content

\* a slip: a failed read hashed as an empty buffer (unwrap_or_default)
hash_of_read_or_default(rd) == Sha256Hex(rd.val)

\* the match of hash(): the digest of what was read, "" when the read failed
hash_of_read(rd) == IF rd.ok THEN Sha256Hex(rd.val) ELSE EmptyString

\* the last line of is_match
hashes_equal(h1, h2) == h1 = h2

\* a slip: two failed reads compare equal, as two empty hashes do
contents_equal_results(r1, r2) == r1 = r2

\* the match of is_deep_match
contents_equal(r1, r2) == IF r1.ok /\ r2.ok THEN r1.val = r2.val ELSE FALSE

Idle == [op |-> "none", pc |-> "idle", self |-> NoFile, other |-> NoFile,
         h1 |-> EmptyString, h2 |-> EmptyString, r1 |-> Err, r2 |-> Err,
         chk |-> FALSE, del |-> "none", seen |-> "none",
         ret |-> "none", again |-> FALSE, paired |-> FALSE, twin |-> FALSE]

AtRest == call.pc \in {"idle", "done"}

SelfPath == call.self.path
OtherPath == call.other.path

Begin(o, i, j) == [Idle EXCEPT !.op = o, !.self = i, !.other = j]

At(c, label) == [c EXCEPT !.pc = label]

Done(c, r) == [c EXCEPT !.pc = "done", !.ret = r]

\* the first system call of a call: the caller is between calls
Start ==
    /\ AtRest
    /\ races' = 0
    /\ fs0' = fs

Init ==
    /\ fs = [p \in Paths |-> NoEntry]
    /\ fs0 = fs
    /\ call = Idle
    /\ races = 0

(* File::new: stores the path, touches nothing *)
New(p) ==
    /\ Start
    /\ call' = Done(Begin("new", new(p), NoFile), "none")
    /\ UNCHANGED fs

(* File::metadata: one stat *)
Metadata(i) ==
    /\ Start
    /\ call' = Done(Begin("metadata", i, NoFile), fs_metadata(fs, i.path))
    /\ UNCHANGED fs

(* File::len: Ok(self.metadata()?.len()) *)
FileLen(i) ==
    /\ Start
    /\ LET md == fs_metadata(fs, i.path)
       IN call' = Done(Begin("len", i, NoFile), IF md.ok THEN Ok(md.val.len) ELSE Err)
    /\ UNCHANGED fs

IsFile(i) ==
    /\ Start
    /\ call' = Done(Begin("is_file", i, NoFile), is_file(fs, i.path))
    /\ UNCHANGED fs

IsDirectory(i) ==
    /\ Start
    /\ call' = Done(Begin("is_directory", i, NoFile), is_directory(fs, i.path))
    /\ UNCHANGED fs

Exists(i) ==
    /\ Start
    /\ call' = Done(Begin("exists", i, NoFile), exists(fs, i.path))
    /\ UNCHANGED fs

(* File::hash: the type check, then the read and the digest *)
HashIsFile(i) ==
    /\ Start
    /\ call' = IF ~is_file(fs, i.path)
               THEN Done(Begin("hash", i, NoFile), EmptyString)
               ELSE At([Begin("hash", i, NoFile) EXCEPT !.chk = TRUE], "hash_read")
    /\ UNCHANGED fs

HashRead ==
    /\ call.pc = "hash_read"
    /\ \E rd \in fs_read(fs, SelfPath) :
          /\ call' = Done([call EXCEPT !.r1 = Result(rd), !.h1 = hash_of_read(rd)],
                          hash_of_read(rd))
          /\ fs' = rd.fs
    /\ UNCHANGED <<fs0, races>>

\* this call follows, with nothing in between, a call of the other match
\* predicate on the same two paths
FollowsTwin(o, i, j) ==
    /\ call.pc = "done"
    /\ call.op \in {"is_match", "is_deep_match"}
    /\ call.op # o
    /\ ~changed
    /\ SelfPath = i.path
    /\ OtherPath = j.path

BeginMatch(o, i, j) ==
    IF FollowsTwin(o, i, j)
    THEN [Begin(o, i, j) EXCEPT !.paired = TRUE, !.twin = call.ret]
    ELSE Begin(o, i, j)

(* File::is_match: both type checks, then self.hash() == other.hash() *)
IsMatchSelfIsFile(i, j) ==
    /\ Start
    /\ call' = IF ~is_file(fs, i.path)
               THEN Done(BeginMatch("is_match", i, j), FALSE)
               ELSE At(BeginMatch("is_match", i, j), "match_other_is_file")
    /\ UNCHANGED fs

IsMatchOtherIsFile ==
    /\ call.pc = "match_other_is_file"
    /\ call' = IF ~is_file(fs, OtherPath)
               THEN Done(call, FALSE)
               ELSE At(call, "match_self_hash")
    /\ UNCHANGED <<fs, fs0, races>>

IsMatchSelfHashIsFile ==
    /\ call.pc = "match_self_hash"
    /\ call' = IF ~is_file(fs, SelfPath)
               THEN At([call EXCEPT !.h1 = EmptyString], "match_other_hash")
               ELSE At(call, "match_self_read")
    /\ UNCHANGED <<fs, fs0, races>>

IsMatchSelfHashRead ==
    /\ call.pc = "match_self_read"
    /\ \E rd \in fs_read(fs, SelfPath) :
          /\ call' = At([call EXCEPT !.r1 = Result(rd), !.h1 = hash_of_read(rd)],
                        "match_other_hash")
          /\ fs' = rd.fs
    /\ UNCHANGED <<fs0, races>>

IsMatchOtherHashIsFile ==
    /\ call.pc = "match_other_hash"
    /\ call' = IF ~is_file(fs, OtherPath)
               THEN Done([call EXCEPT !.h2 = EmptyString],
                         hashes_equal(call.h1, EmptyString))
               ELSE At(call, "match_other_read")
    /\ UNCHANGED <<fs, fs0, races>>

IsMatchOtherHashRead ==
    /\ call.pc = "match_other_read"
    /\ \E rd \in fs_read(fs, OtherPath) :
          /\ call' = Done([call EXCEPT !.r2 = Result(rd), !.h2 = hash_of_read(rd)],
                          hashes_equal(call.h1, hash_of_read(rd)))
          /\ fs' = rd.fs
    /\ UNCHANGED <<fs0, races>>

(* File::is_deep_match: both type checks, both reads, then the comparison *)
IsDeepMatchSelfIsFile(i, j) ==
    /\ Start
    /\ call' = IF ~is_file(fs, i.path)
               THEN Done(BeginMatch("is_deep_match", i, j), FALSE)
               ELSE At(BeginMatch("is_deep_match", i, j), "deep_other_is_file")
    /\ UNCHANGED fs

IsDeepMatchOtherIsFile ==
    /\ call.pc = "deep_other_is_file"
    /\ call' = IF ~is_file(fs, OtherPath)
               THEN Done(call, FALSE)
               ELSE At(call, "deep_self_read")
    /\ UNCHANGED <<fs, fs0, races>>

IsDeepMatchSelfRead ==
    /\ call.pc = "deep_self_read"
    /\ \E rd \in fs_read(fs, SelfPath) :
          /\ call' = At([call EXCEPT !.r1 = Result(rd)], "deep_other_read")
          /\ fs' = rd.fs
    /\ UNCHANGED <<fs0, races>>

IsDeepMatchOtherRead ==
    /\ call.pc = "deep_other_read"
    /\ \E rd \in fs_read(fs, OtherPath) :
          /\ call' = Done([call EXCEPT !.r2 = Result(rd)],
                          contents_equal(call.r1, Result(rd)))
          /\ fs' = rd.fs
    /\ UNCHANGED <<fs0, races>>

(* File::rm: the type checks, then the delete call the first true one picks *)
\* this rm() follows, with nothing in between, an rm() of the same path
\* that returned Ok
FollowsRm(i) ==
    /\ call.pc = "done"
    /\ call.op = "rm"
    /\ call.ret = "Ok"
    /\ ~changed
    /\ SelfPath = i.path

RmIsFile(i) ==
    /\ Start
    /\ call' = At([Begin("rm", i, NoFile) EXCEPT !.again = FollowsRm(i)],
                  IF is_file(fs, i.path) THEN "rm_remove_file"
                                               ELSE "rm_is_directory")
    /\ UNCHANGED fs

RmIsDirectory ==
    /\ call.pc = "rm_is_directory"
    /\ call' = IF is_directory(fs, SelfPath)
               THEN At(call, "rm_remove_dir_all")
               ELSE Done(call, "Ok")
    /\ UNCHANGED <<fs, fs0, races>>

\* the ? operator: an Err of the delete call is rm's return value
Propagate(out) == IF out.ok THEN "Ok" ELSE "Err"

RmRemoveFile ==
    /\ call.pc = "rm_remove_file"
    /\ \E fault \in BOOLEAN :
          LET out == remove_file(fs, SelfPath, fault)
          IN /\ call' = Done([call EXCEPT !.del = "remove_file",
                                              !.seen = fs[SelfPath].kind,
                                              !.r1 = [ok |-> out.ok, val |-> <<>>]],
                             Propagate(out))
             /\ fs' = out.fs
    /\ UNCHANGED <<fs0, races>>

RmRemoveDirAll ==
    /\ call.pc = "rm_remove_dir_all"
    /\ \E fault \in BOOLEAN :
          \E out \in remove_dir_all(fs, SelfPath, fault) :
             /\ call' = Done([call EXCEPT !.del = "remove_dir_all",
                                              !.seen = fs[SelfPath].kind,
                                              !.r1 = [ok |-> out.ok, val |-> <<>>]],
                             Propagate(out))
             /\ fs' = out.fs
    /\ UNCHANGED <<fs0, races>>

(* ------------------------- the other process -------------------------- *)

\* a change made while a call is in progress is a race with it; a change
\* made between calls ends what the last call's result says about fs
EnvStep(G) ==
    /\ AtRest \/ races < MaxRaces
    /\ fs' = G
    /\ fs0' = G
    /\ races' = IF AtRest THEN 0 ELSE races + 1
    /\ call' = IF AtRest THEN Idle ELSE call

\* fs::write: create the file, or replace its whole content
EnvWrite(p, c) ==
    /\ ParentIsDir(fs, p)
    /\ fs[p].kind \in {"none", "file"}
    /\ fs[p] # FileEntry(c, fs[p].readable)
    /\ EnvStep([fs EXCEPT ![p] = FileEntry(c, fs[p].readable)])

\* fs::create_dir
EnvCreateDir(p) ==
    /\ ParentIsDir(fs, p)
    /\ fs[p].kind = "none"
    /\ EnvStep([fs EXCEPT ![p] = DirEntry])

\* mkfifo, mknod: an entry that is neither a regular file nor a directory
EnvMakeSpecial(p) ==
    /\ ParentIsDir(fs, p)
    /\ fs[p].kind = "none"
    /\ EnvStep([fs EXCEPT ![p] = SpecialEntry])

\* chmod: grant or deny read permission on a regular file
EnvChmod(p) ==
    /\ fs[p].kind = "file"
    /\ EnvStep([fs EXCEPT ![p].readable = ~fs[p].readable])

\* unlink, or a recursive delete
EnvRemove(p) ==
    /\ fs[p].kind # "none"
    /\ EnvStep(Without(fs, p))

\* the steps of every operation but rm
QueryStep ==
    \/ \E p \in Paths : New(p)
    \/ \E i \in Files : Metadata(i)
    \/ \E i \in Files : FileLen(i)
    \/ \E i \in Files : IsFile(i)
    \/ \E i \in Files : IsDirectory(i)
    \/ \E i \in Files : Exists(i)
    \/ \E i \in Files : HashIsFile(i)
    \/ HashRead
    \/ \E i, j \in Files : IsMatchSelfIsFile(i, j)
    \/ IsMatchOtherIsFile
    \/ IsMatchSelfHashIsFile
    \/ IsMatchSelfHashRead
    \/ IsMatchOtherHashIsFile
    \/ IsMatchOtherHashRead
    \/ \E i, j \in Files : IsDeepMatchSelfIsFile(i, j)
    \/ IsDeepMatchOtherIsFile
    \/ IsDeepMatchSelfRead
    \/ IsDeepMatchOtherRead

RmStep ==
    \/ \E i \in Files : RmIsFile(i)
    \/ RmIsDirectory
    \/ RmRemoveFile
    \/ RmRemoveDirAll

Next ==
    \/ QueryStep
    \/ RmStep
    \/ \E p \in Paths, c \in Contents : EnvWrite(p, c)
    \/ \E p \in Paths : EnvCreateDir(p)
    \/ \E p \in Paths : EnvMakeSpecial(p)
    \/ \E p \in Paths : EnvChmod(p)
    \/ \E p \in Paths : EnvRemove(p)

Spec == Init /\ [][Next]_vars

(* ------------------------------ claims -------------------------------- *)

Returned(o) == call.pc = "done" /\ call.op = o

BothFiles(F) == is_file(F, SelfPath) /\ is_file(F, OtherPath)

\* C1: with no change by another process, a.is_match(b) returns true if and
\* only if a and b are both regular files and their two hash() values are
\* non-empty and identical.
C1_IsMatchIffNonEmptyEqualHashes ==
    (Returned("is_match") /\ ~changed) =>
        (call.ret = (/\ BothFiles(fs)
                     /\ call.h1 # EmptyString
                     /\ call.h2 # EmptyString
                     /\ call.h1 = call.h2))

\* C2: with no change by another process, a.is_deep_match(b) returns true if
\* and only if a and b are both regular files, both can be read and their
\* contents are the same bytes; otherwise it returns false.
C2_IsDeepMatchIffSameBytes ==
    (Returned("is_deep_match") /\ ~changed) =>
        (call.ret = (/\ BothFiles(fs)
                     /\ fs[SelfPath].readable
                     /\ fs[OtherPath].readable
                     /\ fs[SelfPath].content = fs[OtherPath].content))

\* is_deep_match has returned true for two different paths
C2_Witness ==
    /\ Returned("is_deep_match")
    /\ ~changed
    /\ call.ret = TRUE
    /\ SelfPath # OtherPath

\* C3: is_match and is_deep_match, called one after the other on the same
\* two paths with the filesystem unchanged, return the same boolean.
C3_MatchAgreesWithDeepMatch ==
    (/\ call.pc = "done"
     /\ call.op \in {"is_match", "is_deep_match"}
     /\ call.paired
     /\ ~changed) => (call.ret = call.twin)

\* C4: hash() always returns a string: "" when the type check fails or the
\* read after it fails, and otherwise the non-empty digest of the bytes
\* read; without interference that is the digest of the file's content for
\* a readable regular file and "" for every other path.
C4_HashEmptyOrDigestOfRead ==
    Returned("hash") =>
        /\ IF call.chk /\ call.r1.ok
           THEN call.ret = Sha256Hex(call.r1.val) /\ call.ret # EmptyString
           ELSE call.ret = EmptyString
        /\ ~changed =>
              (call.ret = IF fs[SelfPath].kind = "file" /\ fs[SelfPath].readable
                          THEN Sha256Hex(fs[SelfPath].content)
                          ELSE EmptyString)

\* hash() has returned "" because the file went away between the type check
\* and the read
C4_Witness ==
    /\ Returned("hash")
    /\ call.chk
    /\ ~call.r1.ok
    /\ changed
    /\ fs[SelfPath].kind = "none"

\* C5: with no change by another process, when the path is a regular file
\* or a directory and the delete call succeeds, rm() returns Ok, nothing
\* exists any more at the path or beneath it, and every other entry is as
\* it was.
C5_RmRemovesExactlyTheTree ==
    (/\ Returned("rm")
     /\ ~changed
     /\ fs0[SelfPath].kind \in {"file", "dir"}
     /\ call.r1.ok) =>
        /\ call.ret = "Ok"
        /\ \A q \in Paths :
              IF Beneath(q, SelfPath) THEN ~exists(fs, q) ELSE fs[q] = fs0[q]

\* rm() has deleted a directory that held a subdirectory holding a file,
\* with an entry outside it left in place
C5_Witness ==
    /\ Returned("rm")
    /\ ~changed
    /\ call.ret = "Ok"
    /\ fs0[SelfPath].kind = "dir"
    /\ \E q, r \in Paths :
          /\ q # SelfPath /\ Beneath(q, SelfPath) /\ fs0[q].kind = "dir"
          /\ r # q /\ Beneath(r, q) /\ fs0[r].kind = "file"
    /\ \E q \in Paths : ~Beneath(q, SelfPath) /\ exists(fs, q)

\* C6: with no change by another process, rm() of a path that is neither a
\* regular file nor a directory returns Ok and leaves the filesystem as it
\* was, and an rm() that directly follows an rm() of the same path that
\* returned Ok returns Ok.
C6_RmOfNeitherIsNoOp ==
    (Returned("rm") /\ ~changed) =>
        /\ fs0[SelfPath].kind \in {"none", "special"} =>
              (call.ret = "Ok" /\ fs = fs0)
        /\ call.again => call.ret = "Ok"

\* a second rm() of a path that the first rm() deleted has returned
C6_Witness ==
    /\ Returned("rm")
    /\ ~changed
    /\ call.again
    /\ call.ret = "Ok"
    /\ \E q \in Paths : exists(fs, q)

\* the three type queries of path p on filesystem F
Queries(F, p) == <<exists(F, p), is_file(F, p), is_directory(F, p)>>

\* the part of C7 that speaks of one filesystem state
C7_State ==
    /\ \A p \in Paths :
          /\ ~(is_file(fs, p) /\ is_directory(fs, p))
          /\ is_file(fs, p) => exists(fs, p)
          /\ is_directory(fs, p) => exists(fs, p)
          /\ fs[p].kind = "none" => Queries(fs, p) = <<FALSE, FALSE, FALSE>>
    /\ (Returned("hash") /\ ~changed /\ fs[SelfPath].kind = "none") =>
          call.ret = EmptyString
    /\ (/\ call.pc = "done"
        /\ call.op \in {"exists", "is_file", "is_directory"}
        /\ ~changed
        /\ fs[SelfPath].kind = "none") => call.ret = FALSE

\* the part of C7 that speaks of the step that creates a file or a
\* directory; such a step changes fs, so the others need not be looked at
C7_Created ==
    fs' # fs =>
        \A p \in Paths :
           /\ (\E c \in Contents : EnvWrite(p, c)) =>
                 Queries(fs', p) = <<TRUE, TRUE, FALSE>>
           /\ EnvCreateDir(p) => Queries(fs', p) = <<TRUE, FALSE, TRUE>>

\* C7: in every reachable filesystem, for every path, is_file and
\* is_directory are never both true and each implies exists; for a path
\* that does not exist all three are false and hash() is ""; right after a
\* regular file is created exists and is_file are true and is_directory is
\* false, and right after a directory is created exists and is_directory
\* are true and is_file is false.
C7_TypeQueriesConsistent == [](C7_State) /\ [][C7_Created]_vars

\* is_directory() has returned true for a directory while a regular file
\* exists at another path
C7_Witness ==
    /\ Returned("is_directory")
    /\ ~changed
    /\ call.ret = TRUE
    /\ \E q \in Paths : is_file(fs, q)

\* C8: no step of new, metadata, len, hash, is_match, is_deep_match,
\* is_file, is_directory or exists changes any filesystem entry, and no step
\* of any call, rm included, changes the path stored in a File value the
\* call is made on.
C8_OnlyRmChangesTheFilesystem ==
    [][/\ fs' # fs => ~QueryStep
       /\ ~AtRest => (call'.self = call.self /\ call'.other = call.other)]_vars

\* hash() has read a file that exists, and the file is still there
C8_Witness ==
    /\ Returned("hash")
    /\ call.r1.ok
    /\ ~changed
    /\ is_file(fs, SelfPath)
    /\ fs[SelfPath].content # <<>>

\* C9: when another process changes the filesystem during a.is_match(b),
\* is_match returns true only if both hash() calls returned non-empty,
\* identical digests.
C9_RacedIsMatchNeverTrueOnEmptyHashes ==
    (Returned("is_match") /\ changed /\ call.ret = TRUE) =>
        /\ call.h1 # EmptyString
        /\ call.h2 # EmptyString
        /\ call.h1 = call.h2

\* C10: rm() returns an error only when its delete call failed on a file or
\* directory that was still there, and returns Ok when the target was
\* already gone at the moment of the delete call.
C10_RmOfVanishedTargetIsOk ==
    Returned("rm") =>
        /\ call.ret = "Err" => (call.del # "none" /\ call.seen \in {"file", "dir"})
        /\ (call.del # "none" /\ call.seen = "none") => call.ret = "Ok"

====
